---- MODULE Spec2Model ----
(***************************************************************************)
(* A model of kopf's callback invocation core                              *)
(* (src/kopf/reactor/invocation.py): context(), build_kwargs(), invoke()   *)
(* and is_async_fn(), together with the parts of asyncio that invoke()     *)
(* relies on: the event loop's FIFO queue of ready callbacks, the task's   *)
(* cancel()/wakeup protocol, asyncio.shield() and run_in_executor(); and   *)
(* of the owner references of src/kopf/toolkits/hierarchies.py.            *)
(***************************************************************************)
EXTENDS Integers, Sequences, FiniteSets, TLC

(***************************************************************************)
(* Bounds of the model.                                                    *)
(***************************************************************************)
\* How many times task.cancel() is called on the task awaiting invoke().
MaxCancels == 2
\* How many suspension points (awaits of a pending future) an async handler has.
MaxSuspend == 2
\* How many partial/wrapper layers surround the handler given to invoke().
MaxWrap == 1
\* How many (variable, value) pairs a context() scope binds.
MaxBind == 3
\* How many partial/wrapper layers surround a callable given to is_async_fn().
MaxDepth == 3
\* How many calls of append_owner_reference()/remove_owner_reference() are made.
MaxCalls == 3

(***************************************************************************)
(* Values.  Python's None is the empty tuple; other opaque values are      *)
(* non-empty tuples of strings; mappings are functions from key strings.   *)
(***************************************************************************)
None == << >>

EmptyDict == [k \in {} |-> None]

\* dict.get(key) with the default None.
Get(d, key) == IF key \in DOMAIN d THEN d[key] ELSE None

\* An update that keeps the value of a key already there (dict.setdefault()).
Update_first_wins(d, other) ==
    [k \in DOMAIN d \cup DOMAIN other |-> IF k \in DOMAIN d THEN d[k] ELSE other[k]]

\* dict.update(): the keys of `other` are added to, or replace, those of `d`.
Update(d, other) ==
    [k \in DOMAIN d \cup DOMAIN other |-> IF k \in DOMAIN other THEN other[k] ELSE d[k]]

(***************************************************************************)
(* Causes (kopf.reactor.causation).  A cause is a record; `tiers` is the   *)
(* set of classes it is an instance of.  Fields a class does not have are  *)
(* None.                                                                   *)
(***************************************************************************)
\* The test passing whatever the cause is, None included.
isinstance_any(cause, cls) == TRUE

\* The test of the exact class (type(cause) is cls): false for the classes the
\* cause's class extends.
isinstance_exact(cause, cls) ==
    /\ cls \in cause.tiers
    /\ \A t \in cause.tiers :
          \/ t = cls
          \/ t = "BaseCause"
          \/ t = "ResourceCause" /\ cls \in {"ResourceWatchingCause", "ResourceChangingCause"}

isinstance(cause, cls) == cls \in cause.tiers

NoFields ==
    [logger |-> None, activity |-> None, patch |-> None, memo |-> None,
     body |-> EmptyDict, raw |-> None, type |-> None, reason |-> None,
     diff |-> None, old |-> None, new |-> None]

\* cause=None
NoCause == [tiers |-> {}] @@ NoFields

Body1 == [metadata |-> [uid |-> <<"uid1">>, name |-> <<"obj1">>],
          spec |-> <<"spec1">>]

ActivityCause1 ==
    [tiers |-> {"BaseCause", "ActivityCause"},
     logger |-> <<"logger1">>, activity |-> <<"startup">>] @@ NoFields

ResourceWatchingCause1 ==
    [tiers |-> {"BaseCause", "ResourceCause", "ResourceWatchingCause"},
     logger |-> <<"logger2">>, patch |-> <<"patch2">>, memo |-> <<"memo2">>,
     body |-> [spec |-> <<"spec2">>],
     raw |-> <<"rawevent">>, type |-> <<"MODIFIED">>] @@ NoFields

ResourceChangingCause1 ==
    [tiers |-> {"BaseCause", "ResourceCause", "ResourceChangingCause"},
     logger |-> <<"logger3">>, patch |-> <<"patch3">>, memo |-> <<"memo3">>,
     body |-> Body1, reason |-> <<"update">>, diff |-> <<"diff3">>,
     old |-> <<"old3">>, new |-> <<"new3">>] @@ NoFields

\* A cause of the base class alone.
BaseCause1 == [tiers |-> {"BaseCause"}, logger |-> <<"logger0">>] @@ NoFields

\* Bodies with and without metadata, and with metadata that lacks fields.
Bodies ==
    { EmptyDict,
      [spec |-> <<"spec2">>],
      [metadata |-> EmptyDict],
      [metadata |-> [name |-> <<"obj1">>]],
      Body1,
      [metadata |-> [uid |-> <<"uid1">>, name |-> <<"obj1">>, namespace |-> <<"ns1">>],
       status |-> <<"status1">>] }

\* A resource cause of neither the watching nor the changing class.
ResourceCauses ==
    { [tiers |-> {"BaseCause", "ResourceCause"}, logger |-> <<"logger4">>,
       patch |-> <<"patch4">>, memo |-> <<"memo4">>, body |-> b] @@ NoFields
      : b \in Bodies }

\* A cause of a class that extends both the watching and the changing class.
WatchingChangingCause1 ==
    [tiers |-> {"BaseCause", "ResourceCause", "ResourceWatchingCause",
                "ResourceChangingCause"},
     logger |-> <<"logger5">>, patch |-> <<"patch5">>, memo |-> <<"memo5">>,
     body |-> Body1, raw |-> <<"rawevent5">>, type |-> <<"ADDED">>,
     reason |-> <<"create">>, diff |-> <<"diff5">>, old |-> <<"old5">>,
     new |-> <<"new5">>] @@ NoFields

Causes ==
    {NoCause, BaseCause1, ActivityCause1, ResourceWatchingCause1, ResourceChangingCause1,
     WatchingChangingCause1} \cup ResourceCauses

\* The explicit kwargs: every subset of a few keys, some of which the cause's
\* fields are also put under.  (`cause` is a parameter of its own, never one of
\* the **kwargs.)
ExplicitKeys == {"extra", "event", "logger", "uid", "reason"}
ExplicitKwargs == UNION {[ks -> {<<"mine">>}] : ks \in SUBSET ExplicitKeys}

\* dicts.DictView(body, field): a live view of one top-level field of the body.
DictView(body, field) == [view |-> field, of |-> body]

(***************************************************************************)
(* build_kwargs(cause, **kwargs)                                           *)
(***************************************************************************)
build_kwargs(cause, kwargs) ==
    LET k0 == Update(EmptyDict, kwargs)
        k1 == IF isinstance(cause, "BaseCause")
              THEN Update(k0, [cause |-> cause, logger |-> cause.logger])
              ELSE k0
        k2 == IF isinstance(cause, "ActivityCause")
              THEN Update(k1, [activity |-> cause.activity])
              ELSE k1
        k3 == IF isinstance(cause, "ResourceCause")
              THEN Update(k2,
                     [patch |-> cause.patch,
                      memo |-> cause.memo,
                      body |-> cause.body,
                      spec |-> DictView(cause.body, "spec"),
                      meta |-> DictView(cause.body, "metadata"),
                      status |-> DictView(cause.body, "status"),
                      uid |-> Get(IF "metadata" \in DOMAIN cause.body
                                  THEN cause.body["metadata"] ELSE EmptyDict, "uid"),
                      name |-> Get(IF "metadata" \in DOMAIN cause.body
                                   THEN cause.body["metadata"] ELSE EmptyDict, "name"),
                      namespace |-> Get(IF "metadata" \in DOMAIN cause.body
                                        THEN cause.body["metadata"] ELSE EmptyDict,
                                        "namespace")])
              ELSE k2
        k4 == IF isinstance(cause, "ResourceWatchingCause")
              THEN Update(k3, [event |-> cause.raw, type |-> cause.type])
              ELSE k3
        k5 == IF isinstance(cause, "ResourceChangingCause")
              THEN Update(k4,
                     [event |-> cause.reason,
                      reason |-> cause.reason,
                      diff |-> cause.diff,
                      old |-> cause.old,
                      new |-> cause.new])
              ELSE k4
    IN  k5

(***************************************************************************)
(* Callables.  A callable is the sequence of its layers, outermost first:  *)
(* "partial" (functools.partial) and "wrapper" (a functools.wraps          *)
(* decorator, with __wrapped__) around a core function, "def" or           *)
(* "async_def".  None is the empty sequence.  Partials and wrappers pass   *)
(* the call through to the function they wrap.                             *)
(***************************************************************************)
RECURSIVE WrapChains(_)
WrapChains(n) ==
    IF n = 0 THEN {<< >>}
    ELSE WrapChains(n - 1) \cup
         {<<l>> \o c : l \in {"partial", "wrapper"}, c \in WrapChains(n - 1)}

Invokables(n) == {c \o <<core>> : c \in WrapChains(n), core \in {"def", "async_def"}}

\* The innermost function of a callable.
Innermost(fn) == fn[Len(fn)]

\* is_async_fn() taken to be true of every callable.
is_async_fn_any(fn) == fn # None

\* is_async_fn() asking iscoroutinefunction() of the callable as given, without
\* unwrapping it.
is_async_fn_no_unwrap(fn) == fn # None /\ Head(fn) = "async_def"

RECURSIVE is_async_fn(_)
is_async_fn(fn) ==
    IF fn = None THEN FALSE
    ELSE IF Head(fn) = "partial" THEN is_async_fn(Tail(fn))
    ELSE IF Head(fn) = "wrapper" THEN is_async_fn(Tail(fn))
    ELSE Head(fn) = "async_def"

(***************************************************************************)
(* The state of one invocation: invoke(fn, *args, cause=cause, **kwargs)  *)
(* awaited in a task of the event loop, the executor's worker thread, and  *)
(* the caller's context variables.                                         *)
(***************************************************************************)
VARIABLES
    fn,            \* the handler given to invoke()
    args,          \* the positional arguments given to invoke()
    kwargs,        \* the explicit keyword arguments given to invoke()
    cause,         \* the cause given to invoke()
    handler,       \* what the handler's body does: how it ends, how often it suspends
    pc,            \* where the coroutine of invoke() stands
    real_fn,       \* line 126: the thunk partial(fn, *args, **kwargs)
    context,       \* line 130: the copy of the caller's context
    future,        \* line 139: the future of loop.run_in_executor()
    cancellation,  \* line 140: the recorded CancelledError, or None
    outcome,       \* what invoke() surfaced to its caller
    awaited,       \* the future the task is suspended on (shield's outer, or the handler's own)
    futWaiter,     \* Task._fut_waiter: which future that is
    mustCancel,    \* Task._must_cancel
    ready,         \* the event loop's FIFO queue of ready callbacks
    worker,        \* the executor's work item
    poolLog,       \* every operation performed on the executor
    hCalls,        \* how many times the handler's body was entered
    hThreads,      \* the threads the handler's body ran on
    hCalledWith,   \* the arguments the handler's body received
    hSeenCtx,      \* the context the handler's body observed
    hpc,           \* how many suspension points the async handler has reached
    hDone,         \* the handler's body ran to its end (returned or raised)
    hCancelledAt,  \* the suspension point at which the handler received CancelledError
    ctx,           \* the caller's current context: variable -> value
    cancelReqs,    \* how many times task.cancel() was called
    cancelInFlight,\* a cancel() arrived while the blocking wait was pending on a future not done
    cancelWaiting, \* a cancel() arrived while invoke() was suspended at an await
    cancelPoint,   \* the handler's suspension point when the first such cancel() arrived
    ctxAtCall,     \* the caller's context when invoke() was called
    ctxAtRun,      \* the caller's context when the worker thread entered the handler
    workerCtx      \* the context the thunk ran the handler in, after the handler's writes

invokeVars ==
    <<fn, args, kwargs, cause, handler, pc, real_fn, context, future, cancellation,
      outcome, awaited, futWaiter, mustCancel, ready, worker, poolLog, hCalls,
      hThreads, hCalledWith, hSeenCtx, hpc, hDone, hCancelledAt, cancelReqs,
      cancelInFlight, cancelWaiting, cancelPoint, ctxAtCall, ctxAtRun, workerCtx>>

CancelledError == <<"CancelledError">>

\* Outcomes of a call, and what is sent or thrown into a coroutine at an await.
NoOutcome == [kind |-> "none"]
Returned(v) == [kind |-> "return", val |-> v]
Raised(e) == [kind |-> "raise", exc |-> e]
Cancelled == [kind |-> "cancelled"]

\* States of a future.
NoFuture == [state |-> "none", val |-> None]
Pending == [state |-> "pending", val |-> None]
WithResult(v) == [state |-> "result", val |-> v]
WithException(e) == [state |-> "exception", val |-> e]
CancelledFuture == [state |-> "cancelled", val |-> None]

\* Future.done()
done(f) == f.state \in {"result", "exception", "cancelled"}

\* Future.result(): the result, the exception raised, or CancelledError raised.
result(f) ==
    IF f.state = "result" THEN Returned(f.val)
    ELSE IF f.state = "exception" THEN Raised(f.val)
    ELSE Cancelled

\* How the handler's body ends.
HandlerEnd(h) == IF h.ends = "return" THEN Returned(<<"42">>) ELSE Raised(<<"E">>)

\* The context variables and their values; Unset marks a variable with no value.
CtxVars == {"v1", "v2"}
Unset == <<"unset">>
CtxVals == {<<"a">>, <<"b">>}

(***************************************************************************)
(* The inputs of an invocation.                                            *)
(***************************************************************************)
ArgA == <<"a">>
ArgB == <<"b">>

CallInputs ==
    { [args |-> << >>, kwargs |-> EmptyDict, cause |-> NoCause],
      [args |-> <<ArgA, ArgB>>, kwargs |-> [extra |-> <<"x">>, reason |-> <<"stale">>],
       cause |-> ResourceChangingCause1],
      [args |-> <<ArgA>>, kwargs |-> [logger |-> <<"mine">>], cause |-> ActivityCause1] }

Handlers(f) ==
    [ends : {"return", "raise"},
     suspends : IF Innermost(f) = "async_def" THEN 0 .. MaxSuspend ELSE {0}]

\* No thunk, no future, nothing run yet.
InvokeFresh ==
    /\ real_fn = None
    /\ context = EmptyDict
    /\ future = NoFuture
    /\ cancellation = None
    /\ outcome = NoOutcome
    /\ awaited = NoFuture
    /\ futWaiter = "none"
    /\ mustCancel = FALSE
    /\ ready = << >>
    /\ worker = "idle"
    /\ poolLog = << >>
    /\ hCalls = 0
    /\ hThreads = {}
    /\ hCalledWith = << >>
    /\ hSeenCtx = EmptyDict
    /\ hpc = 0
    /\ hDone = FALSE
    /\ hCancelledAt = 0
    /\ cancelReqs = 0
    /\ cancelInFlight = FALSE
    /\ cancelWaiting = FALSE
    /\ cancelPoint = 0
    /\ ctxAtCall = EmptyDict
    /\ ctxAtRun = EmptyDict
    /\ workerCtx = EmptyDict

InvokeInit ==
    /\ fn \in Invokables(MaxWrap)
    /\ handler \in Handlers(fn)
    /\ \E i \in CallInputs : args = i.args /\ kwargs = i.kwargs /\ cause = i.cause
    /\ ctx \in {[v \in CtxVars |-> <<"a">>],
                [v \in CtxVars |-> IF v = "v1" THEN Unset ELSE <<"b">>]}
    /\ pc = "start"
    /\ InvokeFresh

\* No invocation is under way.
InvokeIdle ==
    /\ fn = <<"def">>
    /\ handler = [ends |-> "return", suspends |-> 0]
    /\ args = << >>
    /\ kwargs = EmptyDict
    /\ cause = NoCause
    /\ pc = "idle"
    /\ InvokeFresh

(***************************************************************************)
(* The pieces of invoke() (lines 118-150).                                 *)
(***************************************************************************)
\* The explicit kwargs passed on as they are, the cause's fields left out.
invoke_kwargs_unmerged(c, kw) == kw

\* Line 118: kwargs = build_kwargs(cause=cause, **kwargs)
invoke_kwargs(c, kw) == build_kwargs(c, kw)

\* The executor's future awaited without shield().
await_unshielded == "inner"

\* Line 143: await asyncio.shield(future).  The task is suspended on shield()'s
\* outer future ("outer"), never on the executor's future itself ("inner").
await_target == "outer"

\* The handler run in whatever the caller's context is when the thread starts.
run_context_live(copied, current) == current

\* Lines 130-131: the thunk runs the handler inside the copy of the context taken
\* at line 130 (context.run), whatever the caller's context is by then.
run_context(copied, current) == copied

\* The handler's set() landing in the caller's context, as without a copy.
context_run_shared(copied, current, var, val) ==
    [thread |-> copied, caller |-> [current EXCEPT ![var] = val]]

\* Lines 130-131: context.run(real_fn) makes the copy the current context of the
\* thread for the handler's run: a ContextVar.set() in the handler changes the
\* copy, not the context it was copied from.
context_run(copied, current, var, val) ==
    [thread |-> [copied EXCEPT ![var] = val], caller |-> current]

\* What a handler sets while it runs: one context variable.
HandlerWrite == [var |-> "v2", val |-> <<"h">>]

\* The loop left on the first CancelledError, the future done or not.
wait_loop_leaves_on_cancel(thrown, recorded, fut) ==
    IF thrown.kind = "raise"
    THEN [cancellation |-> recorded, next |-> "propagate"]
    ELSE IF thrown.kind = "cancelled"
    THEN [cancellation |-> CancelledError, next |-> "raise_cancellation"]
    ELSE IF ~done(fut) THEN [cancellation |-> recorded, next |-> "await"]
    ELSE IF recorded # None THEN [cancellation |-> recorded, next |-> "raise_cancellation"]
    ELSE [cancellation |-> recorded, next |-> "result"]

\* Lines 141-148, resumed at the await of line 143 with what the task sent or
\* threw into the coroutine: the CancelledError is caught and recorded (144-145),
\* any other exception leaves invoke() at once, and the loop is left only when the
\* future is done (141); then the recorded cancellation is raised (146-147) or the
\* future's result is taken (148).
wait_loop(thrown, recorded, fut) ==
    IF thrown.kind = "raise"
    THEN [cancellation |-> recorded, next |-> "propagate"]
    ELSE LET c == IF thrown.kind = "cancelled" THEN CancelledError ELSE recorded
         IN  IF ~done(fut) THEN [cancellation |-> c, next |-> "await"]
             ELSE IF c # None THEN [cancellation |-> c, next |-> "raise_cancellation"]
             ELSE [cancellation |-> c, next |-> "result"]

\* The future itself returned in place of its result.
surface_future(next, thrown, fut) ==
    IF next = "propagate" THEN thrown
    ELSE IF next = "raise_cancellation" THEN Cancelled
    ELSE Returned(<<"future">>)

\* Lines 143-150: what leaves invoke() once the loop is left: the exception that
\* came out of the await, the recorded cancellation (147), or future.result()
\* returned or raised (148, 150).
surface(next, thrown, fut) ==
    IF next = "propagate" THEN thrown
    ELSE IF next = "raise_cancellation" THEN Cancelled
    ELSE result(fut)

\* What a worker thread gets from calling the thunk: the handler's body runs only
\* if the function is a blocking one; calling an async function in a thread just
\* makes a coroutine object.
ThreadRuns(thunk) == Innermost(thunk.fn) = "def"

ThreadResult(thunk, h) ==
    IF ThreadRuns(thunk) THEN HandlerEnd(h) ELSE Returned(<<"coroutine">>)

AsFuture(o) == IF o.kind = "return" THEN WithResult(o.val) ELSE WithException(o.exc)

(***************************************************************************)
(* Task.__step after the coroutine yielded a future: the task is suspended *)
(* on it, and a cancellation requested earlier cancels it now.             *)
(***************************************************************************)
Suspend(waiter, queue, must) ==
    /\ futWaiter' = waiter
    /\ mustCancel' = FALSE
    /\ IF must
       THEN awaited' = CancelledFuture /\ ready' = Append(queue, "wakeup")
       ELSE awaited' = Pending /\ ready' = queue

\* The coroutine finished: the task waits on nothing; a cancellation requested
\* and not yet delivered stays requested.
Finish(queue, must) ==
    /\ futWaiter' = "none"
    /\ mustCancel' = must
    /\ awaited' = NoFuture
    /\ ready' = queue

\* The async handler's body runs from its n-th suspension point to the next one,
\* or to its end.
HandlerAdvance(n, queue, must) ==
    IF n < handler.suspends
    THEN /\ hpc' = n + 1
         /\ pc' = "await_fn"
         /\ Suspend("hfut", queue, must)
         /\ UNCHANGED <<outcome, hDone>>
    ELSE /\ hpc' = n
         /\ pc' = "done"
         /\ outcome' = HandlerEnd(handler)
         /\ hDone' = TRUE
         /\ Finish(queue, must)

(***************************************************************************)
(* invoke() is called: the coroutine runs to its first await or to its end.*)
(***************************************************************************)
\* Line 121: result = await fn(*args, **kwargs), on the event loop's thread.
AsyncCall(kw) ==
    /\ hCalls' = hCalls + 1
    /\ hThreads' = hThreads \cup {"loop"}
    /\ hCalledWith' = Append(hCalledWith, [args |-> args, kwargs |-> kw])
    /\ hSeenCtx' = ctx
    /\ IF Innermost(fn) = "async_def"
       THEN HandlerAdvance(0, ready, mustCancel)
       ELSE \* a blocking function called here runs to its end on the loop's
            \* thread; awaiting what it returned raises TypeError
            /\ hDone' = TRUE
            /\ pc' = "done"
            /\ outcome' = IF handler.ends = "raise" THEN HandlerEnd(handler)
                          ELSE Raised(<<"TypeError">>)
            /\ Finish(ready, mustCancel)
            /\ UNCHANGED hpc
    /\ UNCHANGED <<real_fn, context, future, cancellation, worker, poolLog>>

\* Lines 126-143: the thunk, the copy of the context, the submission to the
\* executor, and the first pass of the loop up to the await.
Submit(kw) ==
    /\ real_fn' = [fn |-> fn, args |-> args, kwargs |-> kw]
    /\ context' = ctx
    /\ poolLog' = Append(poolLog, "submit")
    /\ cancellation' = None
    /\ pc' = "await_shield"
    /\ Suspend(await_target, ready, mustCancel)
    /\ IF mustCancel /\ await_target = "inner"
       THEN future' = CancelledFuture /\ worker' = "dropped"
       ELSE future' = Pending /\ worker' = "queued"
    /\ UNCHANGED <<outcome, hCalls, hThreads, hCalledWith, hSeenCtx, hpc, hDone>>

Start ==
    /\ pc = "start"
    /\ LET kw == invoke_kwargs(cause, kwargs)
       IN  IF is_async_fn(fn) THEN AsyncCall(kw) ELSE Submit(kw)
    /\ ctxAtCall' = ctx
    /\ UNCHANGED <<fn, args, kwargs, cause, handler, hCancelledAt, ctx, cancelReqs,
                   cancelInFlight, cancelWaiting, cancelPoint, ctxAtRun, workerCtx>>

(***************************************************************************)
(* Task.cancel(), called by other code of the event loop between two of    *)
(* its callbacks: the future the task waits on is cancelled if it is still *)
(* pending, which schedules the task's wakeup; otherwise the request is    *)
(* kept in _must_cancel for the task's next step.                          *)
(***************************************************************************)
Cancel ==
    /\ pc # "done"
    /\ cancelReqs < MaxCancels
    /\ cancelReqs' = cancelReqs + 1
    /\ cancelInFlight' = (cancelInFlight \/ (pc = "await_shield" /\ ~done(future)))
    /\ cancelWaiting' = (cancelWaiting \/ pc \in {"await_shield", "await_fn"})
    /\ cancelPoint' = IF cancelWaiting THEN cancelPoint ELSE hpc
    /\ IF futWaiter # "none" /\ awaited.state = "pending"
       THEN /\ awaited' = CancelledFuture
            /\ ready' = Append(ready, "wakeup")
            /\ future' = IF futWaiter = "inner" THEN CancelledFuture ELSE future
            /\ worker' = IF futWaiter = "inner" /\ worker = "queued" THEN "dropped"
                         ELSE worker
            /\ UNCHANGED mustCancel
       ELSE /\ mustCancel' = TRUE
            /\ UNCHANGED <<awaited, ready, future, worker>>
    /\ UNCHANGED <<fn, args, kwargs, cause, handler, pc, real_fn, context, cancellation,
                   outcome, futWaiter, poolLog, hCalls, hThreads, hCalledWith, hSeenCtx,
                   hpc, hDone, hCancelledAt, ctx, ctxAtCall, ctxAtRun, workerCtx>>

(***************************************************************************)
(* The executor's worker thread.                                           *)
(***************************************************************************)
\* A worker takes the thunk from the executor's queue and calls it.
WorkerStart ==
    /\ worker = "queued"
    /\ worker' = "running"
    /\ ctxAtRun' = ctx
    /\ IF ThreadRuns(real_fn)
       THEN /\ hCalls' = hCalls + 1
            /\ hThreads' = hThreads \cup {"worker"}
            /\ hCalledWith' = Append(hCalledWith,
                                     [args |-> real_fn.args, kwargs |-> real_fn.kwargs])
            /\ hSeenCtx' = run_context(context, ctx)
            /\ LET r == context_run(context, ctx, HandlerWrite.var, HandlerWrite.val)
               IN  workerCtx' = r.thread /\ ctx' = r.caller
       ELSE UNCHANGED <<hCalls, hThreads, hCalledWith, hSeenCtx, workerCtx, ctx>>
    /\ UNCHANGED <<fn, args, kwargs, cause, handler, pc, real_fn, context, future,
                   cancellation, outcome, awaited, futWaiter, mustCancel, ready, poolLog,
                   hpc, hDone, hCancelledAt, cancelReqs, cancelInFlight,
                   cancelWaiting, cancelPoint, ctxAtCall>>

\* The thunk ends; the worker hands its outcome to the event loop
\* (call_soon_threadsafe).
WorkerFinish ==
    /\ worker = "running"
    /\ worker' = "finished"
    /\ hDone' = (hDone \/ ThreadRuns(real_fn))
    /\ ready' = Append(ready, "set_future")
    /\ UNCHANGED <<fn, args, kwargs, cause, handler, pc, real_fn, context, future,
                   cancellation, outcome, awaited, futWaiter, mustCancel, poolLog, hCalls,
                   hThreads, hCalledWith, hSeenCtx, hpc, hCancelledAt, ctx, cancelReqs,
                   cancelInFlight, cancelWaiting,
                   cancelPoint, ctxAtCall, ctxAtRun, workerCtx>>

(***************************************************************************)
(* The event loop runs the callback at the head of its queue.              *)
(***************************************************************************)
\* The executor future's outcome is copied to the asyncio future (unless that
\* was cancelled meanwhile), whose done-callbacks are then scheduled: that of
\* shield(), or the task's own wakeup when the task waits on the future itself.
LoopSetFuture ==
    /\ ready # << >>
    /\ Head(ready) = "set_future"
    /\ IF future.state = "pending"
       THEN /\ future' = AsFuture(ThreadResult(real_fn, handler))
            /\ IF futWaiter = "inner"
               THEN /\ awaited' = AsFuture(ThreadResult(real_fn, handler))
                    /\ ready' = Append(Tail(ready), "wakeup")
               ELSE /\ ready' = Append(Tail(ready), "inner_done")
                    /\ UNCHANGED awaited
       ELSE /\ ready' = Tail(ready)
            /\ UNCHANGED <<future, awaited>>
    /\ UNCHANGED <<fn, args, kwargs, cause, handler, pc, real_fn, context, cancellation,
                   outcome, futWaiter, mustCancel, worker, poolLog, hCalls, hThreads,
                   hCalledWith, hSeenCtx, hpc, hDone, hCancelledAt, ctx, cancelReqs,
                   cancelInFlight, cancelWaiting,
                   cancelPoint, ctxAtCall, ctxAtRun, workerCtx>>

\* shield()'s callback on the inner future: the outer future gets the inner
\* one's result or exception, unless the outer one was cancelled.
LoopInnerDone ==
    /\ ready # << >>
    /\ Head(ready) = "inner_done"
    /\ IF futWaiter = "outer" /\ awaited.state = "pending"
       THEN /\ awaited' = future
            /\ ready' = Append(Tail(ready), "wakeup")
       ELSE /\ ready' = Tail(ready)
            /\ UNCHANGED awaited
    /\ UNCHANGED <<fn, args, kwargs, cause, handler, pc, real_fn, context, future,
                   cancellation, outcome, futWaiter, mustCancel, worker, poolLog, hCalls,
                   hThreads, hCalledWith, hSeenCtx, hpc, hDone, hCancelledAt, ctx,
                   cancelReqs, cancelInFlight, cancelWaiting,
                   cancelPoint, ctxAtCall, ctxAtRun, workerCtx>>

\* Task.__wakeup and Task.__step: what is sent or thrown into the coroutine.
Thrown ==
    IF mustCancel \/ awaited.state = "cancelled" THEN Cancelled
    ELSE IF awaited.state = "exception" THEN Raised(awaited.val)
    ELSE Returned(awaited.val)

\* The coroutine of invoke() is resumed in its loop (lines 141-148).
ResumeWait ==
    LET r == wait_loop(Thrown, cancellation, future)
    IN  /\ cancellation' = r.cancellation
        /\ IF r.next = "await"
           THEN /\ Suspend(await_target, Tail(ready), FALSE)
                /\ UNCHANGED <<pc, outcome>>
           ELSE /\ pc' = "done"
                /\ outcome' = surface(r.next, Thrown, future)
                /\ Finish(Tail(ready), FALSE)
        /\ UNCHANGED <<hpc, hDone, hCancelledAt>>

\* The cancellation recorded and the handler left to run on, as on the blocking
\* path.
ResumeHandlerDeferred ==
    /\ cancellation' = IF Thrown.kind = "cancelled" THEN CancelledError ELSE cancellation
    /\ HandlerAdvance(hpc, Tail(ready), FALSE)
    /\ UNCHANGED hCancelledAt

\* The coroutine of the handler is resumed at its suspension point, inside the
\* await of line 121: a CancelledError is thrown into the handler there and comes
\* out of invoke(), which catches nothing on this path.  (The handler awaits
\* with no except clause of its own around the await.)
ResumeHandler ==
    /\ IF Thrown.kind = "cancelled"
       THEN /\ hCancelledAt' = hpc
            /\ pc' = "done"
            /\ outcome' = Cancelled
            /\ Finish(Tail(ready), FALSE)
            /\ UNCHANGED <<hpc, hDone>>
       ELSE /\ HandlerAdvance(hpc, Tail(ready), FALSE)
            /\ UNCHANGED hCancelledAt
    /\ UNCHANGED cancellation

LoopWakeup ==
    /\ ready # << >>
    /\ Head(ready) = "wakeup"
    /\ IF pc = "await_shield" THEN ResumeWait ELSE ResumeHandler
    /\ UNCHANGED <<fn, args, kwargs, cause, handler, real_fn, context, future, worker,
                   poolLog, hCalls, hThreads, hCalledWith, hSeenCtx, ctx, cancelReqs,
                   cancelInFlight, cancelWaiting,
                   cancelPoint, ctxAtCall, ctxAtRun, workerCtx>>

(***************************************************************************)
(* The environment of the invocation.                                      *)
(***************************************************************************)
\* The future the async handler awaits gets its result.
AwaitedResolve ==
    /\ pc = "await_fn"
    /\ awaited.state = "pending"
    /\ awaited' = WithResult(None)
    /\ ready' = Append(ready, "wakeup")
    /\ UNCHANGED <<fn, args, kwargs, cause, handler, pc, real_fn, context, future,
                   cancellation, outcome, futWaiter, mustCancel, worker, poolLog, hCalls,
                   hThreads, hCalledWith, hSeenCtx, hpc, hDone, hCancelledAt, ctx,
                   cancelReqs, cancelInFlight, cancelWaiting,
                   cancelPoint, ctxAtCall, ctxAtRun, workerCtx>>

\* The caller's context changes while invoke() is suspended.
ContextChange ==
    /\ pc \in {"await_shield", "await_fn"}
    /\ \E v \in CtxVals \cup {Unset} :
          /\ v # ctx["v1"]
          /\ ctx' = [ctx EXCEPT !["v1"] = v]
    /\ UNCHANGED <<fn, args, kwargs, cause, handler, pc, real_fn, context, future,
                   cancellation, outcome, awaited, futWaiter, mustCancel, ready, worker,
                   poolLog, hCalls, hThreads, hCalledWith, hSeenCtx, hpc, hDone,
                   hCancelledAt, cancelReqs, cancelInFlight, cancelWaiting,
                   cancelPoint, ctxAtCall, ctxAtRun, workerCtx>>

(***************************************************************************)
(* context(values), lines 30-45: a scope that binds context variables and  *)
(* restores them when the block it wraps is left.                          *)
(***************************************************************************)
VARIABLES
    values,        \* the (variable, value) pairs given to context()
    tokens,        \* line 37: the (var, token) pairs of the bindings made so far
    spc,           \* where the scope stands: entering, in the block, leaving, left
    restored,      \* the positions in `tokens` of the tokens reset so far, in order
    exitKind,      \* how the block was left: normally, by an exception, by a cancellation
    propagated,    \* what left the scope
    bodyWrote,     \* the block itself set a context variable
    ctxBefore,     \* the context when the scope was entered
    blockRan,      \* the wrapped block was run (the generator reached its yield)
    bindRaisesAt,  \* the pair at which entering raises (var.set(), or the iterable); 0: none
    resetRaises,   \* the positions in `tokens` of the tokens whose reset raises
    resetFailed    \* the positions in `tokens` of the tokens whose reset was called and raised

scopeVars ==
    <<values, tokens, spc, restored, exitKind, propagated, bodyWrote, ctxBefore,
      blockRan, bindRaisesAt, resetRaises, resetFailed>>

Bindings == [var : CtxVars, val : CtxVals]

RECURSIVE SeqsUpTo(_, _)
SeqsUpTo(S, n) ==
    IF n = 0 THEN {<< >>}
    ELSE SeqsUpTo(S, n - 1) \cup
         {Append(q, x) : q \in {r \in SeqsUpTo(S, n - 1) : Len(r) = n - 1}, x \in S}

ScopeFresh ==
    /\ tokens = << >>
    /\ restored = << >>
    /\ exitKind = "none"
    /\ propagated = "none"
    /\ bodyWrote = FALSE
    /\ blockRan = FALSE
    /\ resetFailed = << >>

\* Every set() and reset() of the scope succeeds.
ScopeInit ==
    /\ values \in SeqsUpTo(Bindings, MaxBind)
    /\ ctx \in [CtxVars -> {Unset, <<"a">>}]
    /\ ctxBefore = ctx
    /\ spc = "enter"
    /\ bindRaisesAt = 0
    /\ resetRaises = {}
    /\ ScopeFresh

\* No scope is open.
ScopeIdle ==
    /\ values = << >>
    /\ ctxBefore = EmptyDict
    /\ spc = "idle"
    /\ bindRaisesAt = 0
    /\ resetRaises = {}
    /\ ScopeFresh

\* A scope in which entering may raise at one pair (the k-th var.set() raises, or
\* the iterable raises in place of its k-th pair, also when it has no more
\* pairs), and in which the reset of one token may raise (ContextVar.reset()
\* raises ValueError for a token made in another Context, RuntimeError for a
\* token already used).
ScopeFaultyInit ==
    /\ values \in SeqsUpTo(Bindings, MaxBind)
    /\ ctx \in {[v \in CtxVars |-> Unset], [v \in CtxVars |-> <<"a">>]}
    /\ ctxBefore = ctx
    /\ spc = "enter"
    /\ bindRaisesAt \in 0 .. Len(values) + 1
    /\ resetRaises \in {{}} \cup {{i} : i \in 1 .. Len(values)}
    /\ ScopeFresh

\* ContextVar.set(): the token keeps the variable's value before the call
\* (Unset when it had none).
ContextVarSet(c, var, val) ==
    [ctx |-> [c EXCEPT ![var] = val], token |-> [var |-> var, old_value |-> c[var]]]

\* ContextVar.reset(token): the variable gets back the value the token keeps.
ContextVarReset(c, token) == [c EXCEPT ![token.var] = token.old_value]

\* The tokens reset in the order they were made.
bind_order(n) == [i \in 1 .. n |-> i]

\* Line 44: reversed(tokens), as the positions of n tokens.
reversed(n) == [i \in 1 .. n |-> n + 1 - i]

\* Lines 39-41: the next pair is bound and its token kept.
ContextBind ==
    /\ spc = "enter"
    /\ Len(tokens) < Len(values)
    /\ Len(tokens) + 1 # bindRaisesAt
    /\ LET b == values[Len(tokens) + 1]
           r == ContextVarSet(ctx, b.var, b.val)
       IN  /\ ctx' = r.ctx
           /\ tokens' = Append(tokens, r.token)
    /\ UNCHANGED <<values, spc, restored, exitKind, propagated, bodyWrote, ctxBefore,
                   blockRan, bindRaisesAt, resetRaises, resetFailed>>

\* The bindings made outside the try statement: an error of the entry leaves the
\* generator at once, the tokens made so far not reset.
ContextBindRaisesUnprotected ==
    /\ spc = "enter"
    /\ Len(tokens) + 1 = bindRaisesAt
    /\ spc' = "done"
    /\ exitKind' = "enter_error"
    /\ propagated' = "enter_error"
    /\ UNCHANGED <<values, tokens, restored, bodyWrote, ctxBefore, ctx,
                   blockRan, bindRaisesAt, resetRaises, resetFailed>>

\* Lines 39-40: the for statement or var.set() raises: the generator goes into
\* its finally clause (line 43) with the tokens made so far, without yielding.
ContextBindRaises ==
    /\ spc = "enter"
    /\ Len(tokens) + 1 = bindRaisesAt
    /\ spc' = "exit"
    /\ exitKind' = "enter_error"
    /\ UNCHANGED <<values, tokens, restored, propagated, bodyWrote, ctxBefore, ctx,
                   blockRan, bindRaisesAt, resetRaises, resetFailed>>

\* Line 42: every pair is bound; the block runs.
ContextYield ==
    /\ spc = "enter"
    /\ Len(tokens) = Len(values)
    /\ Len(tokens) + 1 # bindRaisesAt
    /\ spc' = "body"
    /\ blockRan' = TRUE
    /\ UNCHANGED <<values, tokens, restored, exitKind, propagated, bodyWrote, ctxBefore,
                   ctx, bindRaisesAt, resetRaises, resetFailed>>

\* The block sets a context variable itself.
BodySet ==
    /\ spc = "body"
    /\ ~bodyWrote
    /\ bodyWrote' = TRUE
    /\ \E v \in CtxVars : ctx' = [ctx EXCEPT ![v] = <<"body">>]
    /\ UNCHANGED <<values, tokens, spc, restored, exitKind, propagated, ctxBefore,
                   blockRan, bindRaisesAt, resetRaises, resetFailed>>

\* The block is left, normally or by an exception or a cancellation raised in it:
\* the generator goes on into its finally clause (line 43).
BodyEnds ==
    /\ spc = "body"
    /\ spc' = "exit"
    /\ exitKind' \in {"normal", "exception", "cancelled"}
    /\ UNCHANGED <<values, tokens, restored, propagated, bodyWrote, ctxBefore, ctx,
                   blockRan, bindRaisesAt, resetRaises, resetFailed>>

\* Lines 44-45: the next token of reversed(tokens) is reset.
ContextRestore ==
    /\ spc = "exit"
    /\ Len(restored) < Len(tokens)
    /\ LET i == reversed(Len(tokens))[Len(restored) + 1]
       IN  /\ i \notin resetRaises
           /\ ctx' = ContextVarReset(ctx, tokens[i])
           /\ restored' = Append(restored, i)
    /\ UNCHANGED <<values, tokens, spc, exitKind, propagated, bodyWrote, ctxBefore,
                   blockRan, bindRaisesAt, resetRaises, resetFailed>>

\* Line 45: var.reset(token) raises.  Nothing in the finally clause catches it:
\* the exception leaves the for statement of line 44 and the generator, in place
\* of what ended the block; the tokens not yet reached are not reset.
ContextResetRaises ==
    /\ spc = "exit"
    /\ Len(restored) < Len(tokens)
    /\ LET i == reversed(Len(tokens))[Len(restored) + 1]
       IN  /\ i \in resetRaises
           /\ resetFailed' = Append(resetFailed, i)
    /\ spc' = "done"
    /\ propagated' = "reset_error"
    /\ UNCHANGED <<values, tokens, restored, exitKind, bodyWrote, ctxBefore, ctx,
                   blockRan, bindRaisesAt, resetRaises>>

\* Every token is reset: the scope is left, and what ended the block goes on.
ContextLeave ==
    /\ spc = "exit"
    /\ Len(restored) = Len(tokens)
    /\ spc' = "done"
    /\ propagated' = exitKind
    /\ UNCHANGED <<values, tokens, restored, exitKind, bodyWrote, ctxBefore, ctx,
                   blockRan, bindRaisesAt, resetRaises, resetFailed>>

(***************************************************************************)
(* build_kwargs() called on its own.  The mappings and the cause are       *)
(* objects of a heap, named by reference, so that a mapping changed in     *)
(* place and a mapping made anew are told apart.                           *)
(***************************************************************************)
VARIABLES
    objects,       \* the heap: reference -> the object's present value
    given,         \* the cause and the explicit kwargs as they were when the call was made
    returned,      \* the reference build_kwargs() returned
    bpc            \* where the call stands: not made, made, returned

buildVars == <<objects, given, returned, bpc>>

BuildInit ==
    /\ \E c \in Causes, kw \in ExplicitKwargs :
          /\ objects = ("cause" :> c) @@ ("caller_kwargs" :> kw)
          /\ given = [cause |-> c, kwargs |-> kw]
    /\ returned = "none"
    /\ bpc = "call"

\* No call of build_kwargs() on its own.
BuildIdle ==
    /\ objects = ("cause" :> NoCause) @@ ("caller_kwargs" :> EmptyDict)
    /\ given = [cause |-> NoCause, kwargs |-> EmptyDict]
    /\ returned = "none"
    /\ bpc = "idle"

\* build_kwargs(cause=cause, **caller_kwargs): the call packs the keyword
\* arguments into a dict of its own (`kwargs`, lines 48-51), line 55 makes
\* `new_kwargs`, lines 56-92 update it, line 94 returns it.
BuildKwargsCall ==
    /\ bpc = "call"
    /\ LET h1 == objects @@ ("kwargs" :> objects["caller_kwargs"])
           h2 == h1 @@ ("new_kwargs" :> build_kwargs(h1["cause"], h1["kwargs"]))
       IN  objects' = h2
    /\ returned' = "new_kwargs"
    /\ bpc' = "returned"
    /\ UNCHANGED given

(***************************************************************************)
(* is_async_fn() called on its own, frame by frame.  The callables are     *)
(* objects named by their position in `target`; the reference 0 is None.   *)
(* A functools.partial refers to its `func`; a function may have the       *)
(* attribute __wrapped__ (functools.wraps), which refers to an object or   *)
(* is None, and is itself a coroutine function or not.                     *)
(***************************************************************************)
VARIABLES
    target,        \* the objects reachable from the callable given; the callable is the first
    at,            \* the reference that is `fn` in the innermost frame of is_async_fn()
    frames,        \* how many frames of is_async_fn() are on the stack
    verdict        \* what the call returned or raised

classVars == <<target, at, frames, verdict>>

PartialObject(func, bound) ==
    [type |-> "partial", func |-> func, bound |-> bound, coroutine |-> FALSE,
     has_wrapped |-> FALSE, wrapped |-> 0]

FunctionObject(coroutine) ==
    [type |-> "function", func |-> 0, bound |-> << >>, coroutine |-> coroutine,
     has_wrapped |-> FALSE, wrapped |-> 0]

WrapperObject(coroutine, wrapped) ==
    [type |-> "function", func |-> 0, bound |-> << >>, coroutine |-> coroutine,
     has_wrapped |-> TRUE, wrapped |-> wrapped]

\* The layers at position i of a chain: they refer to the next object.
Layers(i) ==
    {PartialObject(i + 1, b) : b \in {<< >>, <<"x">>}} \cup
    {WrapperObject(co, i + 1) : co \in BOOLEAN}

\* The last object of a chain of n objects: a plain function, or a wrapper whose
\* __wrapped__ is None or refers back to an object of the chain.  (A partial
\* cannot be made of None, and its func cannot be set afterwards.)
Lasts(n) ==
    {FunctionObject(co) : co \in BOOLEAN} \cup
    {WrapperObject(co, r) : co \in BOOLEAN, r \in 0 .. n}

RECURSIVE LayerChains(_)
LayerChains(n) ==
    IF n = 0 THEN {<< >>}
    ELSE {Append(c, l) : c \in LayerChains(n - 1), l \in Layers(n)}

\* None (no object), and the chains of up to n layers around a last object.
CallableGraphs(n) ==
    {<< >>} \cup
    UNION {{Append(c, l) : c \in LayerChains(m), l \in Lasts(m + 1)} : m \in 0 .. n}

\* The chain ends in a function that wraps nothing.
Resolvable(g) == g # << >> /\ ~g[Len(g)].has_wrapped

\* The limit of the interpreter on nested calls (sys.getrecursionlimit()), far
\* above the depth of any chain that ends.
RecursionLimit == MaxDepth + 3

ClassInit ==
    /\ target \in CallableGraphs(MaxDepth)
    /\ at = (IF target = << >> THEN 0 ELSE 1)
    /\ frames = 1
    /\ verdict = NoOutcome

\* No call of is_async_fn() on its own.
ClassIdle ==
    /\ target = << >>
    /\ at = 0
    /\ frames = 0
    /\ verdict = NoOutcome

\* Lines 159 and 161: is_async_fn() calls itself with the inner object; the
\* interpreter raises RecursionError when the stack is at its limit.
Recurse(ref) ==
    IF frames = RecursionLimit
    THEN /\ verdict' = Raised(<<"RecursionError">>)
         /\ UNCHANGED <<at, frames>>
    ELSE /\ at' = ref
         /\ frames' = frames + 1
         /\ UNCHANGED verdict

\* An is_async_fn() without the branch of line 160: a function is asked whether
\* it is a coroutine function itself, __wrapped__ or not.
IsAsyncFnFrameNoWrapped ==
    /\ frames >= 1
    /\ verdict = NoOutcome
    /\ IF at = 0
       THEN verdict' = Returned(FALSE) /\ UNCHANGED <<at, frames>>
       ELSE IF target[at].type = "partial"
       THEN Recurse(target[at].func)
       ELSE verdict' = Returned(target[at].coroutine) /\ UNCHANGED <<at, frames>>
    /\ UNCHANGED target

\* Lines 156-163, one frame: the value returned by the innermost frame is what
\* every frame above it returns.
IsAsyncFnFrame ==
    /\ frames >= 1
    /\ verdict = NoOutcome
    /\ IF at = 0
       THEN verdict' = Returned(FALSE) /\ UNCHANGED <<at, frames>>
       ELSE IF target[at].type = "partial"
       THEN Recurse(target[at].func)
       ELSE IF target[at].has_wrapped
       THEN Recurse(target[at].wrapped)
       ELSE verdict' = Returned(target[at].coroutine) /\ UNCHANGED <<at, frames>>
    /\ UNCHANGED target

\* The callable as the sequence of its layers, outermost first.
AsLayers(g) ==
    [i \in 1 .. Len(g) |->
        IF g[i].type = "partial" THEN "partial"
        ELSE IF g[i].has_wrapped THEN "wrapper"
        ELSE IF g[i].coroutine THEN "async_def" ELSE "def"]

(***************************************************************************)
(* The owner references of kopf.toolkits.hierarchies: the owner is the one *)
(* given, or the body of the cause in the context variable cause_var.      *)
(***************************************************************************)
VARIABLES
    cause_var,     \* handling.cause_var: Unset, None, or the cause being handled
    objs,          \* the objects given to the utilities, as dicts.walk() yields them
    objsGiven,     \* the objects as they were before the first call
    objsBefore,    \* the objects as they were before the last call
    lastCall,      \* the last call: the utility, the owner given, how it ended, the owner used
    calls          \* how many calls were made

ownerVars == <<cause_var, objs, objsGiven, objsBefore, lastCall, calls>>

LookupError == <<"LookupError">>

OwnerA == [metadata |-> [uid |-> <<"uidA">>, name |-> <<"a">>]]
\* Another body with the uid of OwnerA.
OwnerA2 == [metadata |-> [uid |-> <<"uidA">>, name |-> <<"a2">>], spec |-> <<"s">>]
OwnerB == [metadata |-> [uid |-> <<"uidB">>, name |-> <<"b">>]]

\* The owners given explicitly; None when none is given.
Owners == {None, OwnerA, OwnerA2, OwnerB}

\* The states of cause_var: never set, None, an activity's cause, a resource's.
CauseVarStates == {Unset, None, ActivityCause1, ResourceChangingCause1}

\* The owner checked before the explicit one is looked at.
_guess_owner_ambient_first(owner, cv) ==
    IF cv # Unset /\ cv # None /\ isinstance(cv, "ResourceCause") THEN Returned(cv.body)
    ELSE IF owner # None THEN Returned(owner)
    ELSE Raised(LookupError)

\* Lines 159-173.  cause_var.get() raises LookupError for a variable never set
\* (165-168).
_guess_owner(owner, cv) ==
    IF owner # None THEN Returned(owner)
    ELSE IF cv # Unset /\ cv # None /\ isinstance(cv, "ResourceCause") THEN Returned(cv.body)
    ELSE Raised(LookupError)

\* bodies.build_owner_reference(): the reference to an owner, with its uid.
build_owner_reference(owner) ==
    [uid |-> owner.metadata.uid, name |-> owner.metadata.name, controller |-> TRUE]

\* A reference to an owner that is none of the above.
RefX == [uid |-> <<"uidX">>, name |-> <<"x">>, controller |-> FALSE]

\* obj.setdefault('metadata', {}).setdefault('ownerReferences', []): the list.
OwnerReferences(obj) ==
    IF "metadata" \in DOMAIN obj /\ "ownerReferences" \in DOMAIN obj["metadata"]
    THEN obj["metadata"]["ownerReferences"]
    ELSE << >>

\* The object with that list, changed in place, as its metadata.ownerReferences
\* (both made by setdefault() where absent).
WithOwnerReferences(obj, refs) ==
    LET metadata == IF "metadata" \in DOMAIN obj THEN obj["metadata"] ELSE EmptyDict
    IN  Update(obj, [metadata |-> Update(metadata, [ownerReferences |-> refs])])

\* Line 28/47: [ref for ref in refs if ref.get('uid') == owner_ref['uid']]
Matching(refs, owner_ref) ==
    LET SameUid(ref) == Get(ref, "uid") = owner_ref["uid"]
    IN  SelectSeq(refs, SameUid)

\* list.remove(x): without the first item equal to x.
RECURSIVE ListRemove(_, _)
ListRemove(list, x) ==
    IF list = << >> THEN << >>
    ELSE IF Head(list) = x THEN Tail(list)
    ELSE <<Head(list)>> \o ListRemove(Tail(list), x)

\* Lines 48-49: for ref in matching: refs.remove(ref)
RECURSIVE RemoveEach(_, _)
RemoveEach(refs, matching) ==
    IF matching = << >> THEN refs
    ELSE RemoveEach(ListRemove(refs, Head(matching)), Tail(matching))

\* The reference appended whether or not one with its uid is there.
append_owner_reference_unchecked(os, real_owner) ==
    LET owner_ref == build_owner_reference(real_owner)
    IN  [i \in 1 .. Len(os) |->
            WithOwnerReferences(os[i], Append(OwnerReferences(os[i]), owner_ref))]

\* Lines 25-30, for the owner that _guess_owner() returned.
append_owner_reference(os, real_owner) ==
    LET owner_ref == build_owner_reference(real_owner)
    IN  [i \in 1 .. Len(os) |->
            LET refs == OwnerReferences(os[i])
            IN  WithOwnerReferences(os[i],
                    IF Matching(refs, owner_ref) = << >>
                    THEN Append(refs, owner_ref) ELSE refs)]

\* Lines 44-49, for the owner that _guess_owner() returned.
remove_owner_reference(os, real_owner) ==
    LET owner_ref == build_owner_reference(real_owner)
    IN  [i \in 1 .. Len(os) |->
            LET refs == OwnerReferences(os[i])
            IN  WithOwnerReferences(os[i], RemoveEach(refs, Matching(refs, owner_ref)))]

\* The objects given: without metadata, without ownerReferences, with references
\* to other owners, with references that have the uid of an owner.
K8sObjects ==
    { EmptyDict,
      [metadata |-> [name |-> <<"child">>]],
      [metadata |-> [ownerReferences |-> <<RefX>>]],
      [metadata |-> [ownerReferences |-> <<build_owner_reference(OwnerB), RefX>>]],
      [metadata |-> [ownerReferences |->
          <<build_owner_reference(OwnerA), RefX, build_owner_reference(OwnerA2)>>]] }

NoCall == [op |-> "none", owner |-> None, outcome |-> NoOutcome]

OwnerInit ==
    /\ cause_var \in CauseVarStates
    /\ objs \in {<<o>> : o \in K8sObjects} \cup
                {<<o1, o2>> : o1 \in K8sObjects, o2 \in {EmptyDict, [metadata |-> [ownerReferences |-> <<RefX>>]]}}
    /\ objsGiven = objs
    /\ objsBefore = objs
    /\ lastCall = NoCall
    /\ calls = 0

\* No utility of the hierarchies is called.
OwnerIdle ==
    /\ cause_var = Unset
    /\ objs = << >>
    /\ objsGiven = << >>
    /\ objsBefore = << >>
    /\ lastCall = NoCall
    /\ calls = MaxCalls

\* A call of one of the two utilities: line 24/43 first, the objects only after.
OwnerCall(op, owner) ==
    /\ calls < MaxCalls
    /\ calls' = calls + 1
    /\ objsBefore' = objs
    /\ LET real_owner == _guess_owner(owner, cause_var)
       IN  /\ lastCall' = [op |-> op, owner |-> owner, outcome |-> real_owner]
           /\ IF real_owner.kind = "raise"
              THEN objs' = objs
              ELSE IF op = "append"
              THEN objs' = append_owner_reference(objs, real_owner.val)
              ELSE objs' = remove_owner_reference(objs, real_owner.val)
    /\ UNCHANGED <<cause_var, objsGiven>>

AppendOwnerReference == \E owner \in Owners : OwnerCall("append", owner)

RemoveOwnerReference == \E owner \in Owners : OwnerCall("remove", owner)

(***************************************************************************)
(* A second blocking invocation, under way at the same time as the first   *)
(* and called in the same context: the copy of the context (line 130), the *)
(* submission (139), the handler's run in the thunk on another worker      *)
(* thread (131), the end of invoke().                                      *)
(***************************************************************************)
VARIABLES
    peerPhase,     \* called, submitted, running, finished, done
    peerContext,   \* the Context made at line 130 for the second invocation, as it is now
    peerWrites,    \* the variable the second handler sets
    peerSeen,      \* the context the second handler read before it returned
    ctxGiven       \* the caller's context before either invocation was called

peerVars == <<peerPhase, peerContext, peerWrites, peerSeen, ctxGiven>>

\* The value the second handler sets.
PeerValue == <<"h2">>

PeerInit ==
    /\ peerPhase = "called"
    /\ peerContext = EmptyDict
    /\ peerSeen = EmptyDict
    /\ peerWrites \in CtxVars
    /\ ctxGiven = ctx

\* No second invocation.
PeerIdle ==
    /\ peerPhase = "idle"
    /\ peerContext = EmptyDict
    /\ peerSeen = EmptyDict
    /\ peerWrites = "v1"
    /\ ctxGiven = EmptyDict

\* Lines 130-139: the context is copied and the thunk submitted.
PeerSubmit ==
    /\ peerPhase = "called"
    /\ peerPhase' = "submitted"
    /\ peerContext' = ctx
    /\ UNCHANGED <<peerWrites, peerSeen, ctxGiven, ctx>>

\* A worker thread calls the thunk: the handler runs in the copy and sets its
\* variable.
PeerRun ==
    /\ peerPhase = "submitted"
    /\ peerPhase' = "running"
    /\ LET r == context_run(peerContext, ctx, peerWrites, PeerValue)
       IN  peerContext' = r.thread /\ ctx' = r.caller
    /\ UNCHANGED <<peerWrites, peerSeen, ctxGiven>>

\* The handler reads the context variables and returns.
PeerFinish ==
    /\ peerPhase = "running"
    /\ peerPhase' = "finished"
    /\ peerSeen' = run_context(peerContext, ctx)
    /\ UNCHANGED <<peerContext, peerWrites, ctxGiven, ctx>>

\* Lines 141-150: the future is done, invoke() ends.
PeerDone ==
    /\ peerPhase = "finished"
    /\ peerPhase' = "done"
    /\ UNCHANGED <<peerContext, peerWrites, peerSeen, ctxGiven, ctx>>

(***************************************************************************)
(* Specifications: one invocation of invoke(); one context() scope; one    *)
(* call of build_kwargs(); one call of is_async_fn(); calls of the owner   *)
(* reference utilities; two invocations at once.                           *)
(***************************************************************************)
vars == <<invokeVars, scopeVars, ctx, buildVars, classVars, ownerVars, peerVars>>

\* What the steps of an invocation, of a scope, of a call of build_kwargs() leave
\* as it is.
exceptInvoke == <<scopeVars, buildVars, classVars, ownerVars, peerVars>>
exceptScope == <<invokeVars, buildVars, classVars, ownerVars, peerVars>>
exceptBuild == <<invokeVars, scopeVars, ctx, classVars, ownerVars, peerVars>>
exceptClass == <<invokeVars, scopeVars, ctx, buildVars, ownerVars, peerVars>>
exceptOwner == <<invokeVars, scopeVars, ctx, buildVars, classVars, peerVars>>
exceptPeer == <<invokeVars, scopeVars, buildVars, classVars, ownerVars>>

\* No context variable has a value.
ContextIdle == ctx = [v \in CtxVars |-> Unset]

Init == InvokeInit /\ ScopeIdle /\ BuildIdle /\ ClassIdle /\ OwnerIdle /\ PeerIdle

Next ==
    \/ Start /\ UNCHANGED exceptInvoke
    \/ Cancel /\ UNCHANGED exceptInvoke
    \/ WorkerStart /\ UNCHANGED exceptInvoke
    \/ WorkerFinish /\ UNCHANGED exceptInvoke
    \/ LoopSetFuture /\ UNCHANGED exceptInvoke
    \/ LoopInnerDone /\ UNCHANGED exceptInvoke
    \/ LoopWakeup /\ UNCHANGED exceptInvoke
    \/ AwaitedResolve /\ UNCHANGED exceptInvoke
    \/ ContextChange /\ UNCHANGED exceptInvoke

Spec == Init /\ [][Next]_vars

ScopeSpecInit == ScopeInit /\ InvokeIdle /\ BuildIdle /\ ClassIdle /\ OwnerIdle /\ PeerIdle

ScopeSpecNext ==
    \/ ContextBind /\ UNCHANGED exceptScope
    \/ ContextYield /\ UNCHANGED exceptScope
    \/ BodySet /\ UNCHANGED exceptScope
    \/ BodyEnds /\ UNCHANGED exceptScope
    \/ ContextRestore /\ UNCHANGED exceptScope
    \/ ContextLeave /\ UNCHANGED exceptScope

SpecContext == ScopeSpecInit /\ [][ScopeSpecNext]_vars

\* One context() scope in which a set() or a reset() may raise.
ScopeFaultyNext ==
    \/ ContextBind /\ UNCHANGED exceptScope
    \/ ContextBindRaises /\ UNCHANGED exceptScope
    \/ ContextYield /\ UNCHANGED exceptScope
    \/ BodySet /\ UNCHANGED exceptScope
    \/ BodyEnds /\ UNCHANGED exceptScope
    \/ ContextRestore /\ UNCHANGED exceptScope
    \/ ContextResetRaises /\ UNCHANGED exceptScope
    \/ ContextLeave /\ UNCHANGED exceptScope

ScopeFaultySpecInit ==
    ScopeFaultyInit /\ InvokeIdle /\ BuildIdle /\ ClassIdle /\ OwnerIdle /\ PeerIdle

SpecContextFaulty == ScopeFaultySpecInit /\ [][ScopeFaultyNext]_vars

\* One call of build_kwargs() for each cause and each mapping of explicit kwargs.
BuildSpecInit ==
    BuildInit /\ InvokeIdle /\ ScopeIdle /\ ContextIdle /\ ClassIdle /\ OwnerIdle /\ PeerIdle

BuildSpecNext ==
    \/ BuildKwargsCall /\ UNCHANGED exceptBuild

SpecBuild == BuildSpecInit /\ [][BuildSpecNext]_vars

\* One call of is_async_fn() for None and for each chain of callables.
ClassSpecInit ==
    ClassInit /\ InvokeIdle /\ ScopeIdle /\ ContextIdle /\ BuildIdle /\ OwnerIdle /\ PeerIdle

ClassSpecNext ==
    \/ IsAsyncFnFrame /\ UNCHANGED exceptClass

SpecClassify == ClassSpecInit /\ [][ClassSpecNext]_vars

\* The interpreter goes on running the call.
FairSpecClassify == SpecClassify /\ WF_vars(IsAsyncFnFrame /\ UNCHANGED exceptClass)

\* Calls of append_owner_reference() and remove_owner_reference() on the same
\* objects, with and without an owner, in each state of cause_var.
OwnerSpecInit ==
    OwnerInit /\ InvokeIdle /\ ScopeIdle /\ ContextIdle /\ BuildIdle /\ ClassIdle /\ PeerIdle

OwnerSpecNext ==
    \/ AppendOwnerReference /\ UNCHANGED exceptOwner
    \/ RemoveOwnerReference /\ UNCHANGED exceptOwner

SpecOwners == OwnerSpecInit /\ [][OwnerSpecNext]_vars

\* Two blocking invocations at once: the one of Spec, and a second one.
ConcurrentInit ==
    /\ InvokeInit
    /\ Innermost(fn) = "def"
    /\ PeerInit
    /\ ScopeIdle /\ BuildIdle /\ ClassIdle /\ OwnerIdle

ConcurrentNext ==
    \/ Start /\ UNCHANGED exceptInvoke
    \/ Cancel /\ UNCHANGED exceptInvoke
    \/ WorkerStart /\ UNCHANGED exceptInvoke
    \/ WorkerFinish /\ UNCHANGED exceptInvoke
    \/ LoopSetFuture /\ UNCHANGED exceptInvoke
    \/ LoopInnerDone /\ UNCHANGED exceptInvoke
    \/ LoopWakeup /\ UNCHANGED exceptInvoke
    \/ PeerSubmit /\ UNCHANGED exceptPeer
    \/ PeerRun /\ UNCHANGED exceptPeer
    \/ PeerFinish /\ UNCHANGED exceptPeer
    \/ PeerDone /\ UNCHANGED exceptPeer

SpecConcurrent == ConcurrentInit /\ [][ConcurrentNext]_vars

\* The event loop runs its ready callbacks and the task's first step, and the
\* executor's worker takes up and finishes the thunk.  Nothing obliges other
\* code to call cancel(), the handler's awaited future to resolve, or the
\* context to change.
FairSpec ==
    /\ Spec
    /\ WF_vars(Start /\ UNCHANGED exceptInvoke)
    /\ WF_vars(WorkerStart /\ UNCHANGED exceptInvoke)
    /\ WF_vars(WorkerFinish /\ UNCHANGED exceptInvoke)
    /\ WF_vars(LoopSetFuture /\ UNCHANGED exceptInvoke)
    /\ WF_vars(LoopInnerDone /\ UNCHANGED exceptInvoke)
    /\ WF_vars(LoopWakeup /\ UNCHANGED exceptInvoke)

(***************************************************************************)
(* Properties of invoke().                                                 *)
(***************************************************************************)
BlockingHandler == Innermost(fn) = "def"
AsyncHandler == Innermost(fn) = "async_def"
Terminal == pc = "done"

\* C1: on the blocking path a cancellation request never cancels the executor's
\* future, never drops or interrupts the handler's run on the worker thread (the
\* step of cancel() leaves the future, the work item and the handler as they are),
\* and invoke() has neither returned nor raised in any state where the future is
\* not done.
C1_CancellationIsDeferred ==
    /\ [](BlockingHandler =>
            /\ future.state # "cancelled"
            /\ worker # "dropped"
            /\ hCancelledAt = 0
            /\ (Terminal => done(future) /\ worker = "finished" /\ hDone))
    /\ [][BlockingHandler /\ cancelReqs' # cancelReqs =>
            /\ future' = future
            /\ worker' = worker
            /\ <<hCalls, hDone, hThreads>>' = <<hCalls, hDone, hThreads>>
            /\ <<pc, outcome>>' = <<pc, outcome>>]_vars

\* A cancel() arrived while the executor's future was not done, and invoke()
\* ended only after the handler had.
C1_Witness ==
    /\ BlockingHandler
    /\ cancelInFlight
    /\ Terminal
    /\ hDone
    /\ worker = "finished"

\* C2: on the blocking path, if a cancellation request reached the task while the
\* future was not done, invoke() ends by raising a cancellation, whatever the
\* handler returned or raised.
C2_RecordedCancellationIsRaised ==
    BlockingHandler /\ cancelInFlight /\ Terminal => outcome = Cancelled

\* C3 as stated: whenever the handler raised E, the caller observes E.
C3_HandlerErrorNeverHidden ==
    Terminal /\ hDone /\ handler.ends = "raise" => outcome = HandlerEnd(handler)

\* C3, amended: invoke() surfaces exactly one outcome, and only when it ends:
\* the handler's own result or exception, unchanged and only once the handler
\* has ended so, or a cancellation, and a cancellation only if one was requested;
\* so with no cancellation request the caller observes what the handler
\* returned or raised.  (A handler's error E can be replaced by a cancellation.)
C3_OneOutcomeUnmasked ==
    /\ Terminal <=> outcome # NoOutcome
    /\ Terminal =>
         /\ outcome \in {HandlerEnd(handler), Cancelled}
         /\ (outcome = HandlerEnd(handler) => hDone)
         /\ (outcome = Cancelled => cancelReqs > 0)
         /\ (cancelReqs = 0 => outcome = HandlerEnd(handler))

\* The handler raised E on the worker thread, and the caller observed a
\* cancellation in its place.
C3_Witness ==
    /\ BlockingHandler
    /\ Terminal
    /\ hDone
    /\ handler.ends = "raise"
    /\ outcome = Cancelled

\* C4: a blocking handler that raises E, with no cancellation requested: the
\* caller observes E itself, and the handler was called exactly once, with the
\* positional arguments given and the kwargs of build_kwargs(cause, kwargs).
C4_SyncErrorPropagates ==
    BlockingHandler /\ handler.ends = "raise" /\ Terminal /\ cancelReqs = 0 =>
        /\ outcome = Raised(<<"E">>)
        /\ hCalls = 1
        /\ hCalledWith = <<[args |-> args, kwargs |-> build_kwargs(cause, kwargs)]>>

\* The handler was called with (a, b) and a cause whose fields override an
\* explicit kwarg, and raised.
C4_Witness ==
    /\ BlockingHandler
    /\ handler.ends = "raise"
    /\ Terminal
    /\ cancelReqs = 0
    /\ args = <<ArgA, ArgB>>
    /\ outcome = Raised(<<"E">>)
    /\ hCalledWith[1].kwargs["reason"] = <<"update">>

\* C5: the blocking path runs Submitted -> Waiting (again after each shielded
\* cancel) -> Completed -> one terminal state.  With a worker that finishes and an
\* event loop that runs, invoke() reaches a terminal state, whatever cancellations
\* are requested; it is in a terminal state only after the worker finished the
\* handler and the future completed, the terminal state is one of returned,
\* raised, cancelled, and it is never left.
C5_BlockingPathTerminates ==
    /\ [](BlockingHandler => <>Terminal)
    /\ [](BlockingHandler =>
            /\ pc \in {"start", "await_shield", "done"}
            /\ (pc = "start" <=> worker = "idle")
            /\ (Terminal => /\ worker = "finished"
                            /\ done(future)
                            /\ outcome.kind \in {"return", "raise", "cancelled"}))
    /\ [][BlockingHandler /\ Terminal => pc' = pc /\ outcome' = outcome]_vars

\* invoke() ended after as many cancellations as the model allows.
C5_Witness ==
    /\ BlockingHandler
    /\ Terminal
    /\ cancelReqs = MaxCancels
    /\ worker = "finished"
    /\ cancellation # None

\* C6: a blocking handler never runs on the event loop's thread: one thunk is
\* submitted to the executor per invocation, the handler's body runs only on the
\* worker thread and exactly once, and nothing else is done to the executor (its
\* work is never cancelled).
C6_BlockingRunsInPoolOnce ==
    BlockingHandler =>
        /\ "loop" \notin hThreads
        /\ hCalls <= 1
        /\ poolLog = (IF pc = "start" THEN << >> ELSE <<"submit">>)
        /\ worker # "dropped"
        /\ (hCalls = 1 <=> worker \in {"running", "finished"})
        /\ (Terminal => hCalls = 1 /\ hThreads = {"worker"})

\* A wrapped blocking handler ran on the worker thread and invoke() ended.
C6_Witness ==
    /\ BlockingHandler
    /\ Len(fn) > 1
    /\ Terminal
    /\ hThreads = {"worker"}
    /\ poolLog = <<"submit">>

\* C7: a handler whose innermost callable is async is awaited directly: nothing
\* is ever submitted to the executor, the handler runs on the loop's thread with
\* the merged kwargs, and what it returns or raises is what invoke() returns or
\* raises.
C7_AsyncAwaitedDirectly ==
    AsyncHandler =>
        /\ poolLog = << >>
        /\ worker = "idle"
        /\ future = NoFuture
        /\ hThreads \subseteq {"loop"}
        /\ (pc # "start" =>
              hCalledWith = <<[args |-> args, kwargs |-> build_kwargs(cause, kwargs)]>>)
        /\ (hDone => Terminal /\ outcome = HandlerEnd(handler))

\* A partial of an async handler, invoked with a resource-changing cause,
\* returned 42 to the caller.
C7_Witness ==
    /\ fn = <<"partial", "async_def">>
    /\ cause = ResourceChangingCause1
    /\ Terminal
    /\ outcome = Returned(<<"42">>)
    /\ poolLog = << >>

\* C8: on the async path a cancellation is not deferred: once cancel() is called
\* while the handler is suspended, the handler never runs past that suspension
\* point, nothing is recorded for later, and invoke() ends with the cancellation,
\* thrown into the handler at that point, the handler not having run to its end.
C8_AsyncCancellationImmediate ==
    AsyncHandler =>
        /\ cancellation = None
        /\ (cancelWaiting =>
              /\ hpc = cancelPoint
              /\ ~hDone
              /\ (Terminal => outcome = Cancelled /\ hCancelledAt = cancelPoint))

\* The handler was cancelled at the first of its suspension points.
C8_Witness ==
    /\ AsyncHandler
    /\ handler.suspends > 1
    /\ cancelWaiting
    /\ Terminal
    /\ outcome = Cancelled
    /\ hCancelledAt = 1

\* C9: on the blocking path the copy of the context is taken when invoke() is
\* called, before the submission, and the handler on the worker thread observes
\* that copy: a change of the caller's context after the submission is not seen.
C9_HandlerSeesContextOfSubmission ==
    BlockingHandler =>
        /\ (worker # "idle" => context = ctxAtCall)
        /\ (hCalls > 0 => worker # "idle" /\ hSeenCtx = ctxAtCall)

\* The caller's context changed between the submission and the thread's start.
C9_Witness ==
    /\ BlockingHandler
    /\ hCalls = 1
    /\ ctxAtRun # ctxAtCall
    /\ hSeenCtx = ctxAtCall

(***************************************************************************)
(* Properties of context().                                                *)
(***************************************************************************)
BoundVars == {values[i].var : i \in 1 .. Len(values)}

\* The value bound last to a variable.
LastBound(v) ==
    LET last == CHOOSE i \in 1 .. Len(values) :
                   /\ values[i].var = v
                   /\ \A j \in i + 1 .. Len(values) : values[j].var # v
    IN  values[last].val

\* C10: for every sequence of bindings, the empty one and those that bind a
\* variable more than once included: in the block every bound variable reads the
\* value bound to it last; and once the scope is left, normally or by an exception
\* or a cancellation raised in the block (which goes on to the caller), every bound
\* variable reads what it read before the scope was entered (unset, if it was
\* unset), whatever the block did to it, and the tokens were reset in the reverse
\* of the order of binding.
C10_ScopeRestoresInReverse ==
    /\ (spc = "body" /\ ~bodyWrote => \A v \in BoundVars : ctx[v] = LastBound(v))
    /\ (spc = "done" =>
          /\ \A v \in BoundVars : ctx[v] = ctxBefore[v]
          /\ restored = [i \in 1 .. Len(values) |-> Len(values) + 1 - i]
          /\ propagated = exitKind)

\* A scope that bound one variable twice and another once, the first unset
\* before, was left by an exception after the block had set a variable itself.
C10_Witness ==
    /\ spc = "done"
    /\ Len(values) = 3
    /\ values[1].var = values[3].var
    /\ values[2].var # values[1].var
    /\ ctxBefore[values[1].var] = Unset
    /\ exitKind = "exception"
    /\ bodyWrote

\* The positions of the tokens on which reset() was called.
ResetAttempted == {restored[i] : i \in 1 .. Len(restored)} \cup
                  {resetFailed[i] : i \in 1 .. Len(resetFailed)}

\* The variables none of whose tokens' reset raises.
SoundVars == {tokens[i].var : i \in 1 .. Len(tokens)} \
             {tokens[i].var : i \in resetRaises \cap (1 .. Len(tokens))}

\* C11: restoration is exception-safe: when the scope is left, a reset was
\* attempted on every token made, also after the reset of one of them raised, so
\* that every bound variable whose own resets do not raise reads its pre-scope
\* value again.
C11_RestoreIsExceptionSafe ==
    spc = "done" =>
        /\ ResetAttempted = 1 .. Len(tokens)
        /\ \A v \in SoundVars : ctx[v] = ctxBefore[v]

\* C19: when entering fails at the k-th pair, the block is never run, the k-1
\* tokens made are reset in reverse order, every variable bound reads its
\* pre-scope value again, and the error of the entry is what leaves the scope.
C19_FailedEntryRestores ==
    bindRaisesAt # 0 /\ resetRaises = {} =>
        /\ ~blockRan
        /\ Len(tokens) < bindRaisesAt
        /\ (spc = "done" =>
              /\ Len(tokens) = bindRaisesAt - 1
              /\ restored = [i \in 1 .. bindRaisesAt - 1 |-> bindRaisesAt - i]
              /\ \A v \in CtxVars : ctx[v] = ctxBefore[v]
              /\ propagated = "enter_error")

\* Entering raised at the third pair, after one variable was bound twice, and
\* the scope was left.
C19_Witness ==
    /\ spc = "done"
    /\ bindRaisesAt = 3
    /\ resetRaises = {}
    /\ Len(tokens) = 2
    /\ tokens[1].var = tokens[2].var
    /\ ctxBefore[tokens[1].var] = Unset
    /\ propagated = "enter_error"

(***************************************************************************)
(* Properties of build_kwargs().                                           *)
(***************************************************************************)
\* C12: with no cause the mapping returned equals the explicit kwargs, for every
\* mapping of explicit kwargs; and for every cause the mapping returned is an
\* object that did not exist before the call, and the caller's mapping of
\* explicit kwargs and the cause are after the call what they were before it.
C12_NoCauseIdentityAndFrame ==
    bpc = "returned" =>
        /\ (given.cause = NoCause => objects[returned] = given.kwargs)
        /\ returned \notin {"cause", "caller_kwargs", "kwargs"}
        /\ objects["caller_kwargs"] = given.kwargs
        /\ objects["cause"] = given.cause

\* build_kwargs() returned for no cause and explicit kwargs under keys that a
\* cause's fields would be put under.
C12_Witness ==
    /\ bpc = "returned"
    /\ given.cause = NoCause
    /\ DOMAIN given.kwargs = {"extra", "logger", "event"}
    /\ objects[returned] = given.kwargs

\* The value the overlays put under a key: that of the last tier, in the order
\* Base, Activity, Resource, ResourceWatching, ResourceChanging, that has the key.
Overlaid(c, key) ==
    IF key = "event" /\ "ResourceChangingCause" \in c.tiers THEN c.reason
    ELSE IF key = "event" THEN c.raw
    ELSE IF key = "reason" THEN c.reason
    ELSE IF key = "logger" THEN c.logger
    ELSE IF key = "uid" /\ "metadata" \in DOMAIN c.body /\ "uid" \in DOMAIN c.body.metadata
    THEN c.body.metadata.uid
    ELSE None

\* The keys of the tiers a cause satisfies.
TierKeys(c) ==
    (IF "BaseCause" \in c.tiers THEN {"cause", "logger"} ELSE {}) \cup
    (IF "ActivityCause" \in c.tiers THEN {"activity"} ELSE {}) \cup
    (IF "ResourceCause" \in c.tiers
     THEN {"patch", "memo", "body", "spec", "meta", "status", "uid", "name", "namespace"}
     ELSE {}) \cup
    (IF "ResourceWatchingCause" \in c.tiers THEN {"event", "type"} ELSE {}) \cup
    (IF "ResourceChangingCause" \in c.tiers
     THEN {"event", "reason", "diff", "old", "new"} ELSE {})

\* C13: the later overlay wins: a key of a tier the cause satisfies holds the
\* cause's value, never the explicit kwarg of the same name; `event` is the reason
\* of a cause that satisfies ResourceChangingCause, also when the cause satisfies
\* ResourceWatchingCause too, and the raw event of a cause that satisfies only
\* ResourceWatchingCause; an explicit kwarg under any other key is kept.
C13_LaterOverlayWins ==
    bpc = "returned" =>
        LET c == given.cause
            r == objects[returned]
        IN  /\ \A k \in DOMAIN given.kwargs :
                  r[k] = IF k \in TierKeys(c) THEN Overlaid(c, k) ELSE given.kwargs[k]
            /\ ("ResourceChangingCause" \in c.tiers =>
                    r["event"] = c.reason /\ r["reason"] = c.reason)
            /\ ("ResourceWatchingCause" \in c.tiers /\ "ResourceChangingCause" \notin c.tiers
                    => r["event"] = c.raw)

\* A cause of both the watching and the changing class, with explicit kwargs
\* under `event`, `logger` and `extra`: `event` is the reason.
C13_Witness ==
    /\ bpc = "returned"
    /\ given.cause = WatchingChangingCause1
    /\ DOMAIN given.kwargs = {"event", "logger", "extra"}
    /\ objects[returned]["event"] = <<"create">>
    /\ objects[returned]["logger"] = <<"logger5">>
    /\ objects[returned]["extra"] = <<"mine">>

\* A field of body.metadata, or None when the body has no metadata or the
\* metadata has no such field.
MetadataField(c, field) ==
    IF "metadata" \in DOMAIN c.body /\ field \in DOMAIN c.body.metadata
    THEN c.body.metadata[field]
    ELSE None

\* C14: the keys of the mapping returned are the explicit keys and the keys of
\* the tiers the cause satisfies, and no others; a resource cause's uid, name and
\* namespace are the fields of body.metadata, and None where the body has no
\* metadata or the metadata lacks the field; a changing cause's reason, event
\* and diff are the cause's, beside the base tier's cause and logger.
C14_KeysOfSatisfiedTiers ==
    bpc = "returned" =>
        LET c == given.cause
            r == objects[returned]
        IN  /\ DOMAIN r = DOMAIN given.kwargs \cup TierKeys(c)
            /\ ("ResourceCause" \in c.tiers =>
                    /\ r["uid"] = MetadataField(c, "uid")
                    /\ r["name"] = MetadataField(c, "name")
                    /\ r["namespace"] = MetadataField(c, "namespace"))
            /\ ("ResourceChangingCause" \in c.tiers =>
                    /\ r["reason"] = c.reason /\ r["event"] = c.reason
                    /\ r["diff"] = c.diff
                    /\ r["cause"] = c /\ r["logger"] = c.logger)

\* A resource cause whose body has no metadata, and no explicit kwargs: the
\* keys are those of the base and resource tiers, uid, name and namespace None.
C14_Witness ==
    /\ bpc = "returned"
    /\ given.kwargs = EmptyDict
    /\ given.cause.tiers = {"BaseCause", "ResourceCause"}
    /\ "metadata" \notin DOMAIN given.cause.body
    /\ DOMAIN objects[returned] =
          {"cause", "logger", "patch", "memo", "body", "spec", "meta", "status",
           "uid", "name", "namespace"}
    /\ objects[returned]["uid"] = None
    /\ objects[returned]["namespace"] = None

(***************************************************************************)
(* Properties of is_async_fn().                                            *)
(***************************************************************************)
\* C15: is_async_fn(None) is false; for every chain of partial and __wrapped__
\* layers around a function, of any mix and depth, the call ends, within as many
\* frames as the chain has objects, and returns whether the innermost function
\* is a coroutine function, whatever the partials bind and whether the wrappers
\* are coroutine functions themselves; invoke()'s classification of the chain
\* of layers is the same.
C15_InnermostDecides ==
    /\ [](frames >= 1 /\ (target = << >> \/ Resolvable(target)) =>
            <>(verdict # NoOutcome))
    /\ [](target = << >> /\ verdict # NoOutcome => verdict = Returned(FALSE))
    /\ [](Resolvable(target) =>
            /\ frames <= Len(target)
            /\ (verdict # NoOutcome =>
                  /\ verdict = Returned(target[Len(target)].coroutine)
                  /\ verdict = Returned(is_async_fn(AsLayers(target)))))

\* A partial with a bound argument, around a wrapper that is a coroutine
\* function, around a partial, around a function that is not: false.
C15_Witness ==
    /\ Len(target) = 4
    /\ target[1].type = "partial" /\ target[1].bound # << >>
    /\ target[2].has_wrapped /\ target[2].coroutine
    /\ target[3].type = "partial"
    /\ Resolvable(target) /\ ~target[4].coroutine
    /\ verdict = Returned(FALSE)

\* C16: for a chain that does not resolve to an innermost function (a wrapper
\* whose __wrapped__ is None, or a reference back into the chain) the call
\* neither runs forever nor returns: it raises.
C16_UnresolvableChainIsFatal ==
    target # << >> /\ ~Resolvable(target) =>
        /\ frames <= RecursionLimit
        /\ (verdict # NoOutcome => verdict.kind = "raise")

(***************************************************************************)
(* Properties of the owner references.                                     *)
(***************************************************************************)
\* cause_var holds the cause of a resource.
AmbientResourceCause ==
    cause_var # Unset /\ cause_var # None /\ "ResourceCause" \in cause_var.tiers

\* How many references of an object have the uid.
CountUid(obj, uid) ==
    LET SameUid(ref) == ref["uid"] = uid
    IN  Len(SelectSeq(OwnerReferences(obj), SameUid))

\* The references of an object that have another uid, in their order.
OtherUids(obj, uid) ==
    LET Other(ref) == ref["uid"] # uid
    IN  SelectSeq(OwnerReferences(obj), Other)

\* C17: the owner used is the one given whenever one is given, whatever
\* cause_var holds; with none given it is the body of the cause in cause_var when
\* that is the cause of a resource; otherwise (cause_var never set, None, or the
\* cause of an activity) LookupError is raised and the objects are as they were.
C17_OwnerGivenOrAmbient ==
    lastCall.op # "none" =>
        /\ (lastCall.owner # None => lastCall.outcome = Returned(lastCall.owner))
        /\ (lastCall.owner = None /\ AmbientResourceCause =>
                lastCall.outcome = Returned(cause_var.body))
        /\ (lastCall.owner = None /\ ~AmbientResourceCause =>
                lastCall.outcome = Raised(LookupError) /\ objs = objsBefore)
        /\ (lastCall.op = "append" /\ lastCall.outcome.kind = "return" =>
                \A i \in 1 .. Len(objs) :
                    CountUid(objs[i],
                             IF lastCall.owner # None THEN lastCall.owner.metadata.uid
                             ELSE cause_var.body.metadata.uid) >= 1)

\* With no owner given and the cause of a resource in cause_var, the reference
\* appended is the one to the cause's body.
C17_Witness ==
    /\ lastCall.op = "append"
    /\ lastCall.owner = None
    /\ cause_var = ResourceChangingCause1
    /\ Len(objs) = 2
    /\ OwnerReferences(objsBefore[2]) = << >>
    /\ OwnerReferences(objs[2]) = <<build_owner_reference(Body1)>>

\* The uids of the owners and of the references.
Uids == {<<"uidA">>, <<"uidB">>, <<"uid1">>, <<"uidX">>}

\* C18: after any sequence of calls an object has, of each uid, no more
\* references than one, or than it was given with; after an append the object
\* has a reference with the owner's uid, a second append changes nothing, and a
\* remove gives back the references there were where none had that uid; after a
\* remove no reference with the owner's uid is left; and either call leaves the
\* references with other uids as they were.
C18_AppendIdempotentRemoveInverse ==
    /\ \A i \in 1 .. Len(objs) : \A u \in Uids :
          CountUid(objs[i], u) <= 1 \/ CountUid(objs[i], u) <= CountUid(objsGiven[i], u)
    /\ (lastCall.op # "none" /\ lastCall.outcome.kind = "return" =>
          LET o == lastCall.outcome.val
              u == o.metadata.uid
          IN  \A i \in 1 .. Len(objs) :
                /\ OtherUids(objs[i], u) = OtherUids(objsBefore[i], u)
                /\ (lastCall.op = "append" =>
                      /\ CountUid(objs[i], u) >= 1
                      /\ append_owner_reference(objs, o) = objs
                      /\ (CountUid(objsBefore[i], u) = 0 =>
                            OwnerReferences(remove_owner_reference(objs, o)[i])
                                = OwnerReferences(objsBefore[i])))
                /\ (lastCall.op = "remove" => CountUid(objs[i], u) = 0))

\* An owner was appended twice and another owner too; then the first owner was
\* removed, which left the references to the other owners.
C18_Witness ==
    /\ calls = 3
    /\ lastCall.op = "remove"
    /\ lastCall.outcome = Returned(OwnerA)
    /\ OwnerReferences(objsGiven[1]) = <<RefX>>
    /\ OwnerReferences(objsBefore[1]) =
          <<RefX, build_owner_reference(OwnerA), build_owner_reference(OwnerB)>>
    /\ OwnerReferences(objs[1]) = <<RefX, build_owner_reference(OwnerB)>>

(***************************************************************************)
(* Properties of the context of the handler's thread.                      *)
(***************************************************************************)
\* C20: on the blocking path what the handler sets on the worker thread is set
\* in the copy of the context: the caller's context has, at every point and so
\* after invoke() ended - by return, by the handler's error or by the deferred
\* cancellation - the values it had before the call; and of two invocations
\* under way at once, neither handler reads what the other one set.
C20_HandlerWritesStayInCopy ==
    /\ ctx = ctxGiven
    /\ (pc # "start" => ctxAtCall = ctxGiven)
    /\ (hCalls > 0 =>
          /\ workerCtx = [context EXCEPT ![HandlerWrite.var] = HandlerWrite.val]
          /\ \A v \in CtxVars : hSeenCtx[v] # PeerValue /\ workerCtx[v] # PeerValue)
    /\ (peerPhase \in {"running", "finished", "done"} =>
          peerContext = [ctxGiven EXCEPT ![peerWrites] = PeerValue])
    /\ (peerPhase \in {"finished", "done"} =>
          /\ peerSeen = peerContext
          /\ \A v \in CtxVars : peerSeen[v] # HandlerWrite.val)

\* Both handlers set the same variable, each read its own value, and the first
\* invocation ended with the deferred cancellation: the caller's context still
\* has the value from before.
C20_Witness ==
    /\ Terminal
    /\ outcome = Cancelled
    /\ peerPhase = "done"
    /\ peerWrites = HandlerWrite.var
    /\ workerCtx[HandlerWrite.var] = HandlerWrite.val
    /\ peerSeen[peerWrites] = PeerValue
    /\ ctx[HandlerWrite.var] = <<"a">>

====
